---- MODULE Spec2Model ----
(***************************************************************************)
(* Model of bot.py: the URL classifier (extract_single_url, is_valid_url),  *)
(* the filename sanitizer (sanitize_filename), the aiogram router that      *)
(* picks a handler for an inbound message, and the handlers cmd_start,      *)
(* handle_photo, handle_document and handle_text, each cut at its awaits,   *)
(* and main, which clears the pending updates, polls and closes the session.*)
(*                                                                          *)
(* Text is a sequence of one-character strings.  An absent value (Python    *)
(* None) and an empty one are both the empty sequence: every test the code  *)
(* makes on such a value is a truthiness test (`if not text`, `if not url`, *)
(* `mime_type and ...`, `file_name or "image"`, F.text, F.photo).           *)
(***************************************************************************)
EXTENDS Integers, Sequences, FiniteSets, TLC

VARIABLES
    event,       \* event[i]: the message delivered to invocation i
    handlers,    \* handlers[i]: the handlers the dispatcher called for it, in order
    pc,          \* pc[i]: where invocation i stands
    url,         \* url[i]: handle_text's local `url`
    status_msg,  \* status_msg[i]: position in trace[i] of the status message, 0 if none
    status,      \* status[i]: what became of that status message in the chat
    trace,       \* trace[i]: the calls invocation i has made, with their outcome
    in_text,     \* classifier run: the input text
    out_url,     \* classifier run: the value extract_single_url returned
    cpc,         \* pure-function run: "input", then "classified" or "sanitized", "resanitized"
    out_name,    \* sanitizer run: sanitize_filename(in_text)
    out_again,   \* sanitizer run: sanitize_filename(out_name)
    mpc,         \* where main stands
    mtrace,      \* the calls main has awaited to their end, with their outcome
    pending,     \* updates that arrived before the start are waiting at the server
    session      \* bot.session: "open" or "closed"

vars ==
    <<event, handlers, pc, url, status_msg, status, trace,
      in_text, out_url, cpc, out_name, out_again,
      mpc, mtrace, pending, session>>

hvars == <<event, handlers, pc, url, status_msg, status, trace>>

cvars == <<in_text, out_url, cpc, out_name, out_again>>

mvars == <<mpc, mtrace, pending, session>>

----------------------------------------------------------------------------
(* Bounds *)

\* number of handler invocations that may be in flight together
NInv == 2

\* a classifier input is a concatenation of at most this many pieces
MaxPieces == 4

----------------------------------------------------------------------------
(* Characters and strings *)

None == << >>

\* the characters str.strip() strips and the pattern's \s matches
Whitespace == {" ", "\t", "\n"}

HttpPrefix == <<"h", "t", "t", "p", ":", "/", "/">>

HttpsPrefix == <<"h", "t", "t", "p", "s", ":", "/", "/">>

\* s has p at position i
HasAt(s, i, p) ==
    /\ i >= 1
    /\ i + Len(p) - 1 <= Len(s)
    /\ \A k \in 1..Len(p) : s[i + k - 1] = p[k]

StartsWith(s, p) == HasAt(s, 1, p)

EndsWith(s, p) == Len(p) <= Len(s) /\ HasAt(s, Len(s) - Len(p) + 1, p)

\* s from position i to its end
Tail_(s, i) == SubSeq(s, i, Len(s))

\* position of the first character of s at or after i that is in set cs, 0 if none
RECURSIVE FindFrom(_, _, _)
FindFrom(s, i, cs) ==
    IF i > Len(s) THEN 0
    ELSE IF s[i] \in cs THEN i
    ELSE FindFrom(s, i + 1, cs)

\* str.strip(): leading and trailing whitespace removed
RECURSIVE LStrip(_)
LStrip(s) ==
    IF s # << >> /\ s[1] \in Whitespace THEN LStrip(Tail(s)) ELSE s

RECURSIVE RStrip(_)
RStrip(s) ==
    IF s # << >> /\ s[Len(s)] \in Whitespace
    THEN RStrip(SubSeq(s, 1, Len(s) - 1))
    ELSE s

Strip(s) == RStrip(LStrip(s))

----------------------------------------------------------------------------
(* is_valid_url: urlparse's scheme and netloc *)

LowerLetters ==
    {"a", "b", "c", "d", "e", "f", "g", "h", "i", "j", "k", "l", "m",
     "n", "o", "p", "q", "r", "s", "t", "u", "v", "w", "x", "y", "z"}

UpperLetters == {"H", "T", "P", "S"}

Digits == {"0", "1", "2", "3", "4", "5", "6", "7", "8", "9"}

\* str.lower() on one character
Lower(c) ==
    CASE c = "H" -> "h"
      [] c = "T" -> "t"
      [] c = "P" -> "p"
      [] c = "S" -> "s"
      [] OTHER -> c

LowerStr(s) == [k \in 1..Len(s) |-> Lower(s[k])]

\* urllib.parse.scheme_chars
SchemeChars == LowerLetters \cup UpperLetters \cup Digits \cup {"+", "-", "."}

\* urlsplit's scheme: the text before the first ':' when it starts with a
\* letter and holds scheme characters only; the rest is what follows the ':'
UrlScheme(u) ==
    LET i == FindFrom(u, 1, {":"}) IN
    IF /\ i > 1
       /\ u[1] \in LowerLetters \cup UpperLetters
       /\ \A k \in 1..(i - 1) : u[k] \in SchemeChars
    THEN [scheme |-> LowerStr(SubSeq(u, 1, i - 1)), rest |-> Tail_(u, i + 1)]
    ELSE [scheme |-> << >>, rest |-> u]

\* urlsplit's netloc: after a leading '//', up to the first of '/', '?', '#'
UrlNetloc(rest) ==
    IF StartsWith(rest, <<"/", "/">>)
    THEN LET d == FindFrom(rest, 3, {"/", "?", "#"}) IN
         IF d = 0 THEN Tail_(rest, 3) ELSE SubSeq(rest, 3, d - 1)
    ELSE << >>

\* urlsplit raises ValueError("Invalid IPv6 URL") on an unmatched bracket
UrlParseRaises(u) ==
    LET n == UrlNetloc(UrlScheme(u).rest)
        open == \E k \in 1..Len(n) : n[k] = "["
        close == \E k \in 1..Len(n) : n[k] = "]"
    IN  open # close

\* the scheme alone is looked at, the netloc is not
is_valid_url_SchemeOnly(u) ==
    IF UrlParseRaises(u) THEN FALSE
    ELSE UrlScheme(u).scheme \in {<<"h", "t", "t", "p">>, <<"h", "t", "t", "p", "s">>}

is_valid_url(u) ==
    IF UrlParseRaises(u) THEN FALSE
    ELSE LET r == UrlScheme(u) IN
         /\ r.scheme \in {<<"h", "t", "t", "p">>, <<"h", "t", "t", "p", "s">>}
         /\ UrlNetloc(r.rest) # << >>

----------------------------------------------------------------------------
(* extract_single_url *)

\* number of non-whitespace characters of s from position j on
RECURSIVE NonWsRun(_, _)
NonWsRun(s, j) ==
    IF j > Len(s) \/ s[j] \in Whitespace THEN 0
    ELSE 1 + NonWsRun(s, j + 1)

\* length of the match of https?://[^\s]+ that starts at position i, 0 if none
MatchLenAt(s, i) ==
    IF HasAt(s, i, HttpsPrefix) /\ NonWsRun(s, i + 8) > 0
    THEN 8 + NonWsRun(s, i + 8)
    ELSE IF HasAt(s, i, HttpPrefix) /\ NonWsRun(s, i + 7) > 0
    THEN 7 + NonWsRun(s, i + 7)
    ELSE 0

\* re.findall: the non-overlapping matches, scanning left to right
RECURSIVE FindAllFrom(_, _)
FindAllFrom(s, i) ==
    IF i > Len(s) THEN << >>
    ELSE LET n == MatchLenAt(s, i) IN
         IF n = 0 THEN FindAllFrom(s, i + 1)
         ELSE <<SubSeq(s, i, i + n - 1)>> \o FindAllFrom(s, i + n)

FindAllUrls(text) == FindAllFrom(text, 1)

\* the first URL found is taken, wherever it stands and whatever follows it
extract_single_url_FirstFound(text) ==
    IF text = << >> THEN None
    ELSE LET urls == FindAllUrls(text) IN
         IF Len(urls) = 0 THEN None
         ELSE IF ~is_valid_url(urls[1]) THEN None
         ELSE urls[1]

\* the single URL is taken without comparing it with the stripped text
extract_single_url_Embedded(text) ==
    IF text = << >> THEN None
    ELSE LET urls == FindAllUrls(text) IN
         IF Len(urls) # 1 THEN None
         ELSE IF ~is_valid_url(urls[1]) THEN None
         ELSE urls[1]

extract_single_url(text) ==
    IF text = << >> THEN None
    ELSE LET urls == FindAllUrls(text) IN
         IF Len(urls) # 1 THEN None
         ELSE IF Strip(text) # urls[1] THEN None
         ELSE IF ~is_valid_url(urls[1]) THEN None
         ELSE urls[1]

----------------------------------------------------------------------------
(* sanitize_filename *)

MaxNameLen == 50

\* the pattern's \w: letters (of any script), digits and the underscore
WordChars == LowerLetters \cup UpperLetters \cup Digits \cup {"_", "é"}

\* re.sub(r'^https?://', '', url)
StripSchemePrefix(u) ==
    IF StartsWith(u, HttpsPrefix) THEN Tail_(u, 9)
    ELSE IF StartsWith(u, HttpPrefix) THEN Tail_(u, 8)
    ELSE u

\* the pattern [^\w\-.:/]: the characters of a URL's prefix are let through
ReplaceUnsafe_KeepsSlashColon(name) ==
    [k \in 1..Len(name) |->
        IF name[k] \in WordChars \cup {"-", ".", ":", "/"} THEN name[k] ELSE "_"]

\* the pattern [^\w\-.:]: the colon is let through
ReplaceUnsafe_KeepsColon(name) ==
    [k \in 1..Len(name) |->
        IF name[k] \in WordChars \cup {"-", ".", ":"} THEN name[k] ELSE "_"]

\* re.sub(r'[^\w\-.]', '_', name)
ReplaceUnsafe(name) ==
    [k \in 1..Len(name) |->
        IF name[k] \in WordChars \cup {"-", "."} THEN name[k] ELSE "_"]

\* the length is not limited
sanitize_filename_Untruncated(u) == ReplaceUnsafe(StripSchemePrefix(u))

sanitize_filename(u) ==
    LET name == ReplaceUnsafe(StripSchemePrefix(u)) IN
    IF Len(name) > MaxNameLen THEN SubSeq(name, 1, MaxNameLen) ELSE name

----------------------------------------------------------------------------
(* Inbound messages *)

Inv == 1..NInv

NoEvent == [text |-> << >>, photo |-> << >>, document |-> << >>]

TextMessage(t) == [text |-> t, photo |-> << >>, document |-> << >>]

\* message.photo: the size variants of one photo, smallest first
PhotoMessage(sizes) == [text |-> << >>, photo |-> sizes, document |-> << >>]

DocumentMessage(d) == [text |-> << >>, photo |-> << >>, document |-> <<d>>]

PhotoSmall == [file_id |-> <<"f", "1">>, file_unique_id |-> <<"u", "1">>]

PhotoLarge == [file_id |-> <<"f", "2">>, file_unique_id |-> <<"u", "2">>]

ImageDocument ==
    [file_id |-> <<"f", "3">>,
     mime_type |-> <<"i", "m", "a", "g", "e", "/", "p", "n", "g">>,
     file_name |-> <<"a", ".", "b", ".", "p", "n", "g">>]

PdfDocument ==
    [file_id |-> <<"f", "5">>,
     mime_type |-> <<"a", "p", "p", "l", "i", "c", "a", "t", "i", "o", "n", "/", "p", "d", "f">>,
     file_name |-> <<"a", ".", "p", "d", "f">>]

UntypedDocument ==
    [file_id |-> <<"f", "6">>, mime_type |-> << >>, file_name |-> <<"a">>]

StartText == <<"/", "s", "t", "a", "r", "t">>

\* one bare URL with whitespace around it
UrlText == <<" ", "h", "t", "t", "p", "s", ":", "/", "/", "a", "/", "b", "\n">>

ProseText == <<"s", "e", "e", " ", "h", "t", "t", "p", ":", "/", "/", "a">>

PlainText == <<"h", "i">>

\* the messages delivered in the handler runs
Events ==
    { TextMessage(StartText), TextMessage(UrlText),
      TextMessage(ProseText), TextMessage(PlainText),
      PhotoMessage(<<PhotoSmall, PhotoLarge>>),
      DocumentMessage(ImageDocument),
      DocumentMessage(PdfDocument), DocumentMessage(UntypedDocument),
      NoEvent }

----------------------------------------------------------------------------
(* The dispatcher: the handlers in the order the module registers them *)

Registered == <<"cmd_start", "handle_photo", "handle_document", "handle_text">>

\* Command("start"): the text's first word is /start
CommandStart(t) ==
    /\ StartsWith(t, StartText)
    /\ (Len(t) = Len(StartText) \/ t[Len(StartText) + 1] \in Whitespace)

\* the filter each handler is registered with
Filter(h, e) ==
    CASE h = "cmd_start" -> CommandStart(e.text)
      [] h = "handle_photo" -> e.photo # << >>
      [] h = "handle_document" -> e.document # << >>
      [] h = "handle_text" -> e.text # << >>

\* every registered handler whose filter passes is called
Dispatch_AllMatching(e) ==
    SelectSeq(Registered, LAMBDA h : Filter(h, e))

\* the handlers called for e: the first registered handler whose filter passes
Dispatch(e) ==
    LET m == {k \in 1..Len(Registered) : Filter(Registered[k], e)} IN
    IF m = {} THEN << >>
    ELSE <<Registered[CHOOSE k \in m : \A j \in m : k <= j]>>

\* where a handler starts
Entry(h) ==
    CASE h = "cmd_start" -> "start_answer"
      [] h = "handle_photo" -> "photo_status"
      [] h = "handle_document" -> "doc_begin"
      [] h = "handle_text" -> "text_begin"

----------------------------------------------------------------------------
(* The calls a handler makes, as recorded in its trace *)

Call(op, text, file, fname, cap, ok) ==
    [op |-> op, text |-> text, file |-> file, fname |-> fname, cap |-> cap, ok |-> ok]

\* message.answer(text)
Answer(text, ok) == Call("answer", text, << >>, << >>, << >>, ok)

\* message.answer_document(BufferedInputFile(data, filename=fname), caption=cap)
AnswerDocument(fname, cap, ok) == Call("answer_document", "", << >>, fname, cap, ok)

\* status_msg.edit_text(text)
EditText(text, ok) == Call("edit_text", text, << >>, << >>, << >>, ok)

\* status_msg.delete()
Delete(ok) == Call("delete", "", << >>, << >>, << >>, ok)

\* bot.get_file(file_id)
GetFile(file_id, ok) == Call("get_file", "", file_id, << >>, << >>, ok)

\* bot.download_file(file.file_path, image_bytes)
DownloadFile(file_id, ok) == Call("download_file", "", file_id, << >>, << >>, ok)

\* a producer: generate_qr_svg, generate_qr_png or remove_background
Produce(which, ok) == Call(which, "", << >>, << >>, << >>, ok)

QrSuffixSvg == <<"_", "q", "r", "-", "c", "o", "d", "e", ".", "s", "v", "g">>

QrSuffixPng == <<"_", "q", "r", "-", "c", "o", "d", "e", ".", "p", "n", "g">>

QrCaption(u) == <<"QR-code for: ">> \o u

SuccessCaption == <<"Background removed">>

PhotoFilename(uid) ==
    <<"n", "o", "_", "b", "a", "c", "k", "g", "r", "o", "u", "n", "d", "_">>
        \o uid \o <<".", "p", "n", "g">>

\* position of the last character of s that is c, 0 if none
RECURSIVE RFind(_, _, _)
RFind(s, i, c) ==
    IF i < 1 THEN 0
    ELSE IF s[i] = c THEN i
    ELSE RFind(s, i - 1, c)

\* (document.file_name or "image").rsplit('.', 1)[0] + "_no_bg.png"
DocumentFilename(file_name) ==
    LET original_name == IF file_name # << >> THEN file_name
                         ELSE <<"i", "m", "a", "g", "e">>
        dot == RFind(original_name, Len(original_name), ".")
        base_name == IF dot = 0 THEN original_name
                     ELSE SubSeq(original_name, 1, dot - 1)
    IN  base_name \o <<"_", "n", "o", "_", "b", "g", ".", "p", "n", "g">>

----------------------------------------------------------------------------
(* Steps of a handler.  An awaited transport call either completes (ok) or  *)
(* raises; a call that raised has had no effect in the chat.                *)

Goto(i, label) == pc' = [pc EXCEPT ![i] = label]

Log(i, call) == trace' = [trace EXCEPT ![i] = Append(@, call)]

\* status_msg = await message.answer(...)
Created(i, ok) ==
    IF ok
    THEN /\ status_msg' = [status_msg EXCEPT ![i] = Len(trace[i]) + 1]
         /\ status' = [status EXCEPT ![i] = "created"]
    ELSE UNCHANGED <<status_msg, status>>

\* one status message kept for all invocations: resolving it resolves it
\* for each of them
Resolved_Shared(i, ok, how) ==
    /\ status' = [j \in Inv |-> IF ok THEN how ELSE status[j]]
    /\ UNCHANGED status_msg

\* await status_msg.edit_text(...) or await status_msg.delete()
Resolved(i, ok, how) ==
    /\ status' = [status EXCEPT ![i] = IF ok THEN how ELSE @]
    /\ UNCHANGED status_msg

\* the dispatcher takes a message and calls the handler chosen for it
Deliver(i) ==
    /\ pc[i] = "idle"
    /\ \E e \in Events :
        /\ event' = [event EXCEPT ![i] = e]
        /\ handlers' = [handlers EXCEPT ![i] = Dispatch(e)]
        /\ Goto(i, IF Dispatch(e) = << >> THEN "unhandled"
                   ELSE Entry(Dispatch(e)[1]))
    /\ UNCHANGED <<url, status_msg, status, trace, cvars, mvars>>

cmd_start(i) ==
    /\ pc[i] = "start_answer"
    /\ \E ok \in BOOLEAN :
        /\ Log(i, Answer("welcome", ok))
        /\ Goto(i, IF ok THEN "returned" ELSE "raised")
    /\ UNCHANGED <<event, handlers, url, status_msg, status, cvars, mvars>>

----------------------------------------------------------------------------
(* handle_photo *)

\* the first, smallest variant is taken
LastPhoto_First(i) == event[i].photo[1]

\* photo = message.photo[-1]
LastPhoto(i) == event[i].photo[Len(event[i].photo)]

PhotoStatus(i) ==
    /\ pc[i] = "photo_status"
    /\ \E ok \in BOOLEAN :
        /\ Log(i, Answer("image_status", ok))
        /\ Created(i, ok)
        /\ Goto(i, IF ok THEN "photo_get_file" ELSE "photo_except")
    /\ UNCHANGED <<event, handlers, url, cvars, mvars>>

PhotoGetFile(i) ==
    /\ pc[i] = "photo_get_file"
    /\ \E ok \in BOOLEAN :
        /\ Log(i, GetFile(LastPhoto(i).file_id, ok))
        /\ Goto(i, IF ok THEN "photo_download" ELSE "photo_except")
    /\ UNCHANGED <<event, handlers, url, status_msg, status, cvars, mvars>>

\* a failed download is tried a second time
PhotoDownload_RetriesOnce(i) ==
    /\ pc[i] = "photo_download"
    /\ \E ok \in BOOLEAN :
        /\ Log(i, DownloadFile(LastPhoto(i).file_id, ok))
        /\ Goto(i, IF ok THEN "photo_remove"
                   ELSE IF \A k \in 1..Len(trace[i]) : trace[i][k].op # "download_file"
                        THEN "photo_download"
                        ELSE "photo_except")
    /\ UNCHANGED <<event, handlers, url, status_msg, status, cvars, mvars>>

PhotoDownload(i) ==
    /\ pc[i] = "photo_download"
    /\ \E ok \in BOOLEAN :
        /\ Log(i, DownloadFile(LastPhoto(i).file_id, ok))
        /\ Goto(i, IF ok THEN "photo_remove" ELSE "photo_except")
    /\ UNCHANGED <<event, handlers, url, status_msg, status, cvars, mvars>>

PhotoRemoveBackground(i) ==
    /\ pc[i] = "photo_remove"
    /\ \E ok \in BOOLEAN :
        /\ Log(i, Produce("remove_background", ok))
        /\ Goto(i, IF ok THEN "photo_send" ELSE "photo_edit")
    /\ UNCHANGED <<event, handlers, url, status_msg, status, cvars, mvars>>

\* the failure branch removes the status message instead of editing it
PhotoEdit_Deletes(i) ==
    /\ pc[i] = "photo_edit"
    /\ \E ok \in BOOLEAN :
        /\ Log(i, Delete(ok))
        /\ Resolved(i, ok, "deleted")
        /\ Goto(i, IF ok THEN "returned" ELSE "photo_except")
    /\ UNCHANGED <<event, handlers, url, cvars, mvars>>

PhotoEdit(i) ==
    /\ pc[i] = "photo_edit"
    /\ \E ok \in BOOLEAN :
        /\ Log(i, EditText("photo_failed", ok))
        /\ Resolved(i, ok, "edited")
        /\ Goto(i, IF ok THEN "returned" ELSE "photo_except")
    /\ UNCHANGED <<event, handlers, url, cvars, mvars>>

PhotoSend(i) ==
    /\ pc[i] = "photo_send"
    /\ \E ok \in BOOLEAN :
        /\ Log(i, AnswerDocument(PhotoFilename(LastPhoto(i).file_unique_id),
                                 SuccessCaption, ok))
        /\ Goto(i, IF ok THEN "photo_delete" ELSE "photo_except")
    /\ UNCHANGED <<event, handlers, url, status_msg, status, cvars, mvars>>

PhotoDelete(i) ==
    /\ pc[i] = "photo_delete"
    /\ \E ok \in BOOLEAN :
        /\ Log(i, Delete(ok))
        /\ Resolved(i, ok, "deleted")
        /\ Goto(i, IF ok THEN "returned" ELSE "photo_except")
    /\ UNCHANGED <<event, handlers, url, cvars, mvars>>

\* except Exception: await message.answer(...)
PhotoExcept(i) ==
    /\ pc[i] = "photo_except"
    /\ \E ok \in BOOLEAN :
        /\ Log(i, Answer("photo_unexpected", ok))
        /\ Goto(i, IF ok THEN "returned" ELSE "raised")
    /\ UNCHANGED <<event, handlers, url, status_msg, status, cvars, mvars>>

----------------------------------------------------------------------------
(* handle_document *)

Document(i) == event[i].document[1]

\* any declared media type taken for an image
IsImage_AnyDeclared(d) == d.mime_type # << >>

\* document.mime_type and document.mime_type.startswith('image/')
IsImage(d) ==
    d.mime_type # << >> /\ StartsWith(d.mime_type, <<"i", "m", "a", "g", "e", "/">>)

DocBegin(i) ==
    /\ pc[i] = "doc_begin"
    /\ Goto(i, IF IsImage(Document(i)) THEN "doc_status" ELSE "returned")
    /\ UNCHANGED <<event, handlers, url, status_msg, status, trace, cvars, mvars>>

DocStatus(i) ==
    /\ pc[i] = "doc_status"
    /\ \E ok \in BOOLEAN :
        /\ Log(i, Answer("image_status", ok))
        /\ Created(i, ok)
        /\ Goto(i, IF ok THEN "doc_get_file" ELSE "doc_except")
    /\ UNCHANGED <<event, handlers, url, cvars, mvars>>

DocGetFile(i) ==
    /\ pc[i] = "doc_get_file"
    /\ \E ok \in BOOLEAN :
        /\ Log(i, GetFile(Document(i).file_id, ok))
        /\ Goto(i, IF ok THEN "doc_download" ELSE "doc_except")
    /\ UNCHANGED <<event, handlers, url, status_msg, status, cvars, mvars>>

DocDownload(i) ==
    /\ pc[i] = "doc_download"
    /\ \E ok \in BOOLEAN :
        /\ Log(i, DownloadFile(Document(i).file_id, ok))
        /\ Goto(i, IF ok THEN "doc_remove" ELSE "doc_except")
    /\ UNCHANGED <<event, handlers, url, status_msg, status, cvars, mvars>>

DocRemoveBackground(i) ==
    /\ pc[i] = "doc_remove"
    /\ \E ok \in BOOLEAN :
        /\ Log(i, Produce("remove_background", ok))
        /\ Goto(i, IF ok THEN "doc_send" ELSE "doc_edit")
    /\ UNCHANGED <<event, handlers, url, status_msg, status, cvars, mvars>>

DocEdit(i) ==
    /\ pc[i] = "doc_edit"
    /\ \E ok \in BOOLEAN :
        /\ Log(i, EditText("document_failed", ok))
        /\ Resolved(i, ok, "edited")
        /\ Goto(i, IF ok THEN "returned" ELSE "doc_except")
    /\ UNCHANGED <<event, handlers, url, cvars, mvars>>

DocSend(i) ==
    /\ pc[i] = "doc_send"
    /\ \E ok \in BOOLEAN :
        /\ Log(i, AnswerDocument(DocumentFilename(Document(i).file_name),
                                 SuccessCaption, ok))
        /\ Goto(i, IF ok THEN "doc_delete" ELSE "doc_except")
    /\ UNCHANGED <<event, handlers, url, status_msg, status, cvars, mvars>>

DocDelete(i) ==
    /\ pc[i] = "doc_delete"
    /\ \E ok \in BOOLEAN :
        /\ Log(i, Delete(ok))
        /\ Resolved(i, ok, "deleted")
        /\ Goto(i, IF ok THEN "returned" ELSE "doc_except")
    /\ UNCHANGED <<event, handlers, url, cvars, mvars>>

DocExcept(i) ==
    /\ pc[i] = "doc_except"
    /\ \E ok \in BOOLEAN :
        /\ Log(i, Answer("document_unexpected", ok))
        /\ Goto(i, IF ok THEN "returned" ELSE "raised")
    /\ UNCHANGED <<event, handlers, url, status_msg, status, cvars, mvars>>

----------------------------------------------------------------------------
(* handle_text *)

TextBegin(i) ==
    /\ pc[i] = "text_begin"
    /\ IF event[i].text = << >>
       THEN Goto(i, "returned") /\ UNCHANGED url
       ELSE /\ url' = [url EXCEPT ![i] = extract_single_url(event[i].text)]
            /\ Goto(i, IF extract_single_url(event[i].text) = None
                       THEN "text_reject" ELSE "text_status")
    /\ UNCHANGED <<event, handlers, status_msg, status, trace, cvars, mvars>>

\* the rejection branch without its return: the handler goes on
TextReject_NoReturn(i) ==
    /\ pc[i] = "text_reject"
    /\ \E ok \in BOOLEAN :
        /\ Log(i, Answer("rejection", ok))
        /\ Goto(i, IF ok THEN "text_status" ELSE "text_except")
    /\ UNCHANGED <<event, handlers, url, status_msg, status, cvars, mvars>>

TextReject(i) ==
    /\ pc[i] = "text_reject"
    /\ \E ok \in BOOLEAN :
        /\ Log(i, Answer("rejection", ok))
        /\ Goto(i, IF ok THEN "returned" ELSE "text_except")
    /\ UNCHANGED <<event, handlers, url, status_msg, status, cvars, mvars>>

TextStatus(i) ==
    /\ pc[i] = "text_status"
    /\ \E ok \in BOOLEAN :
        /\ Log(i, Answer("qr_status", ok))
        /\ Created(i, ok)
        /\ Goto(i, IF ok THEN "text_svg" ELSE "text_except")
    /\ UNCHANGED <<event, handlers, url, cvars, mvars>>

TextGenerateSvg(i) ==
    /\ pc[i] = "text_svg"
    /\ \E ok \in BOOLEAN :
        /\ Log(i, Produce("generate_qr_svg", ok))
        /\ Goto(i, IF ok THEN "text_png" ELSE "text_edit")
    /\ UNCHANGED <<event, handlers, url, status_msg, status, cvars, mvars>>

\* a raster failure that is not noticed: the vector artifact is sent anyway
TextGeneratePng_SendsPartial(i) ==
    /\ pc[i] = "text_png"
    /\ \E ok \in BOOLEAN :
        /\ Log(i, Produce("generate_qr_png", ok))
        /\ Goto(i, "text_send_svg")
    /\ UNCHANGED <<event, handlers, url, status_msg, status, cvars, mvars>>

TextGeneratePng(i) ==
    /\ pc[i] = "text_png"
    /\ \E ok \in BOOLEAN :
        /\ Log(i, Produce("generate_qr_png", ok))
        /\ Goto(i, IF ok THEN "text_send_svg" ELSE "text_edit")
    /\ UNCHANGED <<event, handlers, url, status_msg, status, cvars, mvars>>

TextEdit(i) ==
    /\ pc[i] = "text_edit"
    /\ \E ok \in BOOLEAN :
        /\ Log(i, EditText("qr_failed", ok))
        /\ Resolved(i, ok, "edited")
        /\ Goto(i, IF ok THEN "returned" ELSE "text_except")
    /\ UNCHANGED <<event, handlers, url, cvars, mvars>>

\* a failed send of the vector artifact is passed over
TextSendSvg_Ignored(i) ==
    /\ pc[i] = "text_send_svg"
    /\ \E ok \in BOOLEAN :
        /\ Log(i, AnswerDocument(sanitize_filename(url[i]) \o QrSuffixSvg,
                                 QrCaption(url[i]), ok))
        /\ Goto(i, "text_send_png")
    /\ UNCHANGED <<event, handlers, url, status_msg, status, cvars, mvars>>

TextSendSvg(i) ==
    /\ pc[i] = "text_send_svg"
    /\ \E ok \in BOOLEAN :
        /\ Log(i, AnswerDocument(sanitize_filename(url[i]) \o QrSuffixSvg,
                                 QrCaption(url[i]), ok))
        /\ Goto(i, IF ok THEN "text_send_png" ELSE "text_except")
    /\ UNCHANGED <<event, handlers, url, status_msg, status, cvars, mvars>>

\* the raster file named after the raw URL instead of the sanitized base
TextSendPng_RawName(i) ==
    /\ pc[i] = "text_send_png"
    /\ \E ok \in BOOLEAN :
        /\ Log(i, AnswerDocument(url[i] \o QrSuffixPng, << >>, ok))
        /\ Goto(i, IF ok THEN "text_delete" ELSE "text_except")
    /\ UNCHANGED <<event, handlers, url, status_msg, status, cvars, mvars>>

TextSendPng(i) ==
    /\ pc[i] = "text_send_png"
    /\ \E ok \in BOOLEAN :
        /\ Log(i, AnswerDocument(sanitize_filename(url[i]) \o QrSuffixPng,
                                 << >>, ok))
        /\ Goto(i, IF ok THEN "text_delete" ELSE "text_except")
    /\ UNCHANGED <<event, handlers, url, status_msg, status, cvars, mvars>>

TextDelete(i) ==
    /\ pc[i] = "text_delete"
    /\ \E ok \in BOOLEAN :
        /\ Log(i, Delete(ok))
        /\ Resolved(i, ok, "deleted")
        /\ Goto(i, IF ok THEN "returned" ELSE "text_except")
    /\ UNCHANGED <<event, handlers, url, cvars, mvars>>

TextExcept(i) ==
    /\ pc[i] = "text_except"
    /\ \E ok \in BOOLEAN :
        /\ Log(i, Answer("text_unexpected", ok))
        /\ Goto(i, IF ok THEN "returned" ELSE "raised")
    /\ UNCHANGED <<event, handlers, url, status_msg, status, cvars, mvars>>

----------------------------------------------------------------------------
(* The handler runs *)

HandlerInit ==
    /\ event = [i \in Inv |-> NoEvent]
    /\ handlers = [i \in Inv |-> << >>]
    /\ pc = [i \in Inv |-> "idle"]
    /\ url = [i \in Inv |-> None]
    /\ status_msg = [i \in Inv |-> 0]
    /\ status = [i \in Inv |-> "none"]
    /\ trace = [i \in Inv |-> << >>]

ClassifierIdle ==
    /\ in_text = << >>
    /\ out_url = None
    /\ cpc = "input"
    /\ out_name = << >>
    /\ out_again = << >>

\* main has cleared the pending updates and is polling
MainPolling ==
    /\ mpc = "polling"
    /\ mtrace = <<[op |-> "delete_webhook", result |-> "ok"]>>
    /\ pending = FALSE
    /\ session = "open"

Init == HandlerInit /\ ClassifierIdle /\ MainPolling

\* a step of invocation i
Handle(i) ==
        \/ Deliver(i)
        \/ cmd_start(i)
        \/ PhotoStatus(i)
        \/ PhotoGetFile(i)
        \/ PhotoDownload(i)
        \/ PhotoRemoveBackground(i)
        \/ PhotoEdit(i)
        \/ PhotoSend(i)
        \/ PhotoDelete(i)
        \/ PhotoExcept(i)
        \/ DocBegin(i)
        \/ DocStatus(i)
        \/ DocGetFile(i)
        \/ DocDownload(i)
        \/ DocRemoveBackground(i)
        \/ DocEdit(i)
        \/ DocSend(i)
        \/ DocDelete(i)
        \/ DocExcept(i)
        \/ TextBegin(i)
        \/ TextReject(i)
        \/ TextStatus(i)
        \/ TextGenerateSvg(i)
        \/ TextGeneratePng(i)
        \/ TextEdit(i)
        \/ TextSendSvg(i)
        \/ TextSendPng(i)
        \/ TextDelete(i)
        \/ TextExcept(i)

Next == \E i \in Inv : Handle(i)

Spec == Init /\ [][Next]_vars

----------------------------------------------------------------------------
(* The classifier runs: extract_single_url applied to each bounded text *)

Pieces ==
    { HttpPrefix, HttpsPrefix,
      <<"h", "t", "t", "p", ":", "/", "/", "a">>,
      <<"H", "t", "t", "p", ":", "/", "/", "a">>,
      <<"a">>, <<" ">>, <<"/">>, <<"?">>, <<"[">> }

\* the texts made of at most n pieces
RECURSIVE TextsUpTo(_)
TextsUpTo(n) ==
    IF n = 0 THEN {<< >>}
    ELSE LET shorter == TextsUpTo(n - 1) IN
         shorter \cup {p \o t : p \in Pieces, t \in shorter}

ClassifierInit ==
    /\ HandlerInit
    /\ MainPolling
    /\ in_text \in TextsUpTo(MaxPieces)
    /\ out_url = None
    /\ cpc = "input"
    /\ out_name = << >>
    /\ out_again = << >>

Classify ==
    /\ cpc = "input"
    /\ out_url' = extract_single_url(in_text)
    /\ cpc' = "classified"
    /\ UNCHANGED <<in_text, out_name, out_again, hvars, mvars>>

ClassifierNext == Classify

ClassifierSpec == ClassifierInit /\ [][ClassifierNext]_vars

----------------------------------------------------------------------------
(* The sanitizer runs: sanitize_filename applied to each bounded string,    *)
(* then to its own output                                                   *)

\* a run of safe characters one short of the length limit
LongPiece == [k \in 1..(MaxNameLen - 1) |-> "a"]

SanitizerPieces ==
    { HttpPrefix, HttpsPrefix, LongPiece,
      <<"a">>, <<"/">>, <<":">>, <<".">>, <<"-">>, <<"é">> }

\* the strings made of at most n pieces
RECURSIVE NamesUpTo(_)
NamesUpTo(n) ==
    IF n = 0 THEN {<< >>}
    ELSE LET shorter == NamesUpTo(n - 1) IN
         shorter \cup {p \o t : p \in SanitizerPieces, t \in shorter}

SanitizerInit ==
    /\ HandlerInit
    /\ MainPolling
    /\ in_text \in NamesUpTo(MaxPieces)
    /\ out_url = None
    /\ cpc = "input"
    /\ out_name = << >>
    /\ out_again = << >>

Sanitize ==
    /\ cpc = "input"
    /\ out_name' = sanitize_filename(in_text)
    /\ cpc' = "sanitized"
    /\ UNCHANGED <<in_text, out_url, out_again, hvars, mvars>>

SanitizeAgain ==
    /\ cpc = "sanitized"
    /\ out_again' = sanitize_filename(out_name)
    /\ cpc' = "resanitized"
    /\ UNCHANGED <<in_text, out_url, out_name, hvars, mvars>>

SanitizerNext == Sanitize \/ SanitizeAgain

SanitizerSpec == SanitizerInit /\ [][SanitizerNext]_vars

----------------------------------------------------------------------------
(* main: delete_webhook, start_polling, except Exception, finally close.    *)
(* An awaited call completes ("ok"), raises an Exception ("error") or is    *)
(* cancelled ("cancelled", a BaseException that `except Exception` lets     *)
(* through).                                                                *)

AwaitResults == {"ok", "error", "cancelled"}

MainCall(op, result) == [op |-> op, result |-> result]

\* where main goes when an await in its try block raises
MainRaised(result) == IF result = "error" THEN "except" ELSE "finally_reraise"

\* the invocations the dispatcher starts during the run of main
Polled == {CHOOSE i \in Inv : \A j \in Inv : i <= j}

MainInit ==
    /\ HandlerInit
    /\ ClassifierIdle
    /\ mpc = "delete_webhook"
    /\ mtrace = << >>
    /\ pending \in BOOLEAN
    /\ session = "open"

\* await bot.delete_webhook(drop_pending_updates=True)
MainDeleteWebhook ==
    /\ mpc = "delete_webhook"
    /\ \E result \in AwaitResults :
        /\ mtrace' = Append(mtrace, MainCall("delete_webhook", result))
        /\ pending' = IF result = "ok" THEN FALSE ELSE pending
        /\ mpc' = IF result = "ok" THEN "start_polling" ELSE MainRaised(result)
    /\ UNCHANGED <<session, hvars, cvars>>

\* await dp.start_polling(bot): polling begins
MainStartPolling ==
    /\ mpc = "start_polling"
    /\ mpc' = "polling"
    /\ UNCHANGED <<mtrace, pending, session, hvars, cvars>>

\* while main polls, the dispatcher calls handlers
MainPoll ==
    /\ mpc = "polling"
    /\ \E i \in Polled : Handle(i)

\* await dp.start_polling(bot): polling ends
MainPollingEnds ==
    /\ mpc = "polling"
    /\ \E result \in AwaitResults :
        /\ mtrace' = Append(mtrace, MainCall("start_polling", result))
        /\ mpc' = IF result = "ok" THEN "finally" ELSE MainRaised(result)
    /\ UNCHANGED <<pending, session, hvars, cvars>>

\* the except branch returns without the finally block
MainExcept_SkipsFinally ==
    /\ mpc = "except"
    /\ mpc' = "returned"
    /\ UNCHANGED <<mtrace, pending, session, hvars, cvars>>

\* except Exception as e: logger.error(...)
MainExcept ==
    /\ mpc = "except"
    /\ mpc' = "finally"
    /\ UNCHANGED <<mtrace, pending, session, hvars, cvars>>

\* finally: await bot.session.close()
MainFinally ==
    /\ mpc \in {"finally", "finally_reraise"}
    /\ \E result \in AwaitResults :
        /\ mtrace' = Append(mtrace, MainCall("close", result))
        /\ session' = IF result = "ok" THEN "closed" ELSE session
        /\ mpc' = IF result = "ok" /\ mpc = "finally" THEN "returned" ELSE "raised"
    /\ UNCHANGED <<pending, hvars, cvars>>

MainNext ==
    \/ MainDeleteWebhook
    \/ MainStartPolling
    \/ MainPoll
    \/ MainPollingEnds
    \/ MainExcept
    \/ MainFinally

MainSpec == MainInit /\ [][MainNext]_vars

----------------------------------------------------------------------------
(* What the claims speak of *)

HandledBy(i, h) == handlers[i] # << >> /\ handlers[i][1] = h

\* the handler of invocation i has exited, by return or by an exception
Exited(i) == pc[i] \in {"returned", "raised"}

\* the positions of trace[i] holding a call of one of the operations ops
CallsOf(i, ops) == {k \in 1..Len(trace[i]) : trace[i][k].op \in ops}

\* the positions of trace[i] holding a call that raised
FailedCalls(i, ops) == {k \in CallsOf(i, ops) : ~trace[i][k].ok}

Producers == {"generate_qr_svg", "generate_qr_png", "remove_background"}

StatusHandlers == {"handle_text", "handle_photo", "handle_document"}

AllOk(i) == \A k \in 1..Len(trace[i]) : trace[i][k].ok

----------------------------------------------------------------------------
(* C1: in every invocation of handle_text, handle_photo or handle_document  *)
(* that created a status message, that message has been resolved exactly    *)
(* once (edited or deleted, one of the two, once) by the time the handler   *)
(* exits, whichever step failed.                                            *)

C1_StatusResolvedExactlyOnce ==
    \A i \in Inv :
        (Exited(i) /\ status_msg[i] # 0) =>
            /\ status[i] \in {"edited", "deleted"}
            /\ Cardinality({k \in CallsOf(i, {"edit_text", "delete"}) :
                               trace[i][k].ok}) = 1

----------------------------------------------------------------------------
(* C2: no failure of any step of handle_text, handle_photo or               *)
(* handle_document leaves the handler as an exception: the handler always   *)
(* returns normally.                                                        *)

C2_NoFailureLeavesHandler ==
    \A i \in Inv :
        (handlers[i] # << >> /\ handlers[i][1] \in StatusHandlers) =>
            pc[i] # "raised"

----------------------------------------------------------------------------
(* What follows a producer failure at position k of trace[i]: the next call *)
(* is the edit of the status message to failText.  If the edit completes,   *)
(* the handler returns with the status message edited and makes no further  *)
(* call; if the edit raises, the status message stays as created and the    *)
(* only further call is the generic failure reply.  No artifact is sent and *)
(* no delete is attempted at any point.                                     *)

ProducerFailureHandled(i, k, editLabel, failText, exceptLabel, unexpectedText) ==
    LET n == Len(trace[i]) IN
    /\ CallsOf(i, {"answer_document", "delete"}) = {}
    /\ (n = k) = (pc[i] = editLabel)
    /\ n > k =>
        /\ trace[i][k + 1].op = "edit_text"
        /\ trace[i][k + 1].text = failText
        /\ IF trace[i][k + 1].ok
           THEN /\ n = k + 1
                /\ pc[i] = "returned"
                /\ status[i] = "edited"
           ELSE /\ status[i] = "created"
                /\ \/ n = k + 1 /\ pc[i] = exceptLabel
                   \/ /\ n = k + 2
                      /\ Exited(i)
                      /\ trace[i][k + 2].op = "answer"
                      /\ trace[i][k + 2].text = unexpectedText

QrProducers == {"generate_qr_svg", "generate_qr_png"}

----------------------------------------------------------------------------
(* C3: in handle_text, when a QR producer has failed, the handler ends with *)
(* the status message edited to the failure text and no artifact sent.      *)

C3_ProducerFailureLeavesStatusEdited ==
    \A i \in Inv :
        (/\ HandledBy(i, "handle_text")
         /\ FailedCalls(i, QrProducers) # {}
         /\ Exited(i)) =>
            /\ status[i] = "edited"
            /\ \E k \in CallsOf(i, {"edit_text"}) :
                   trace[i][k].ok /\ trace[i][k].text = "qr_failed"
            /\ CallsOf(i, {"answer_document"}) = {}

(* Beside C3: what handle_text does do after a QR producer failure, the    *)
(* edit attempt's own failure included (ProducerFailureHandled).            *)

C3_ProducerFailureSendsNoArtifact ==
    \A i \in Inv :
        HandledBy(i, "handle_text") =>
            \A k \in FailedCalls(i, QrProducers) :
                ProducerFailureHandled(i, k, "text_edit", "qr_failed",
                                       "text_except", "text_unexpected")

\* the raster producer failed after the vector one succeeded; the status
\* message was edited and the handler returned
C3_Witness ==
    \E i \in Inv :
        /\ HandledBy(i, "handle_text")
        /\ FailedCalls(i, {"generate_qr_png"}) # {}
        /\ pc[i] = "returned"
        /\ status[i] = "edited"

----------------------------------------------------------------------------
(* C4: in handle_photo, and in handle_document for an image, when           *)
(* remove_background has raised, the handler ends with the status message   *)
(* edited, no document sent and the status message not deleted.             *)

C4_RemoveFailureLeavesStatusEdited ==
    \A i \in Inv :
        (/\ (HandledBy(i, "handle_photo") \/ HandledBy(i, "handle_document"))
         /\ FailedCalls(i, {"remove_background"}) # {}
         /\ Exited(i)) =>
            /\ status[i] = "edited"
            /\ \E k \in CallsOf(i, {"edit_text"}) :
                   /\ trace[i][k].ok
                   /\ trace[i][k].text \in {"photo_failed", "document_failed"}
            /\ CallsOf(i, {"answer_document"}) = {}
            /\ status[i] # "deleted"

(* Beside C4: what the image handlers do do after remove_background has    *)
(* raised, the edit attempt's own failure included.                         *)

C4_RemoveFailureSendsNoDocument ==
    \A i \in Inv :
        /\ HandledBy(i, "handle_photo") =>
            \A k \in FailedCalls(i, {"remove_background"}) :
                ProducerFailureHandled(i, k, "photo_edit", "photo_failed",
                                       "photo_except", "photo_unexpected")
        /\ HandledBy(i, "handle_document") =>
            \A k \in FailedCalls(i, {"remove_background"}) :
                ProducerFailureHandled(i, k, "doc_edit", "document_failed",
                                       "doc_except", "document_unexpected")

\* remove_background raised for a photo and for an image document; each
\* status message was edited and each handler returned
C4_Witness ==
    \E i, j \in Inv :
        /\ HandledBy(i, "handle_photo")
        /\ HandledBy(j, "handle_document")
        /\ \A m \in {i, j} :
            /\ FailedCalls(m, {"remove_background"}) # {}
            /\ pc[m] = "returned"
            /\ status[m] = "edited"

----------------------------------------------------------------------------
(* C5: for a text message that is a single URL, when no producer and no     *)
(* transport step fails, handle_text makes exactly these transport calls in *)
(* this order: the status message, the .svg artifact with a caption, the    *)
(* .png artifact, the deletion of the status message.  Both filenames are   *)
(* one sanitized base followed by _qr-code.svg and _qr-code.png.  No        *)
(* rejection reply, no edit and no failure reply is sent.                   *)

\* the transport calls of trace[i], the producer calls left out
Transport(i) == SelectSeq(trace[i], LAMBDA c : c.op \notin Producers)

\* fname is base followed by suffix
BaseOf(fname, suffix) == SubSeq(fname, 1, Len(fname) - Len(suffix))

SafeNameChars == WordChars \cup {"-", "."}

QrShape(t, u) ==
    /\ Len(t) >= 1 =>
        /\ t[1].op = "answer"
        /\ t[1].text = "qr_status"
    /\ Len(t) >= 2 =>
        /\ t[2].op = "answer_document"
        /\ EndsWith(t[2].fname, QrSuffixSvg)
        /\ t[2].cap # << >>
        /\ EndsWith(t[2].cap, u)
    /\ Len(t) >= 3 =>
        /\ t[3].op = "answer_document"
        /\ EndsWith(t[3].fname, QrSuffixPng)
        /\ t[3].cap = << >>
        /\ BaseOf(t[3].fname, QrSuffixPng) = BaseOf(t[2].fname, QrSuffixSvg)
        /\ \A k \in 1..Len(BaseOf(t[3].fname, QrSuffixPng)) :
               BaseOf(t[3].fname, QrSuffixPng)[k] \in SafeNameChars
    /\ Len(t) >= 4 => t[4].op = "delete"
    /\ Len(t) <= 4

C5_UrlSuccessSequence ==
    \A i \in Inv :
        (/\ HandledBy(i, "handle_text")
         /\ url[i] # None
         /\ AllOk(i)) =>
            /\ QrShape(Transport(i), url[i])
            /\ pc[i] # "raised"
            /\ (event[i].text = UrlText /\ Len(Transport(i)) >= 3) =>
                /\ Transport(i)[2].fname = <<"a", "_", "b">> \o QrSuffixSvg
                /\ Transport(i)[3].fname = <<"a", "_", "b">> \o QrSuffixPng
            /\ pc[i] = "returned" =>
                /\ Len(Transport(i)) = 4
                /\ status[i] = "deleted"

\* the URL message was handled to the end with every step completing
C5_Witness ==
    \E i \in Inv :
        /\ HandledBy(i, "handle_text")
        /\ url[i] # None
        /\ AllOk(i)
        /\ pc[i] = "returned"
        /\ Len(Transport(i)) = 4

----------------------------------------------------------------------------
(* C6: for a text message that is not one bare URL, handle_text sends       *)
(* exactly one rejection reply and makes no other call.                     *)

Rejected(i) ==
    /\ HandledBy(i, "handle_text")
    /\ pc[i] # "text_begin"
    /\ url[i] = None

C6_RejectionIsTheOnlyCall ==
    \A i \in Inv :
        (Rejected(i) /\ Exited(i)) =>
            /\ Len(trace[i]) = 1
            /\ trace[i][1].op = "answer"
            /\ trace[i][1].text = "rejection"

(* C6 as amended: for a text message that is not one bare URL, handle_text  *)
(* first sends the rejection reply; when that send completes it is the only *)
(* call of the invocation, and when it raises the generic failure reply is  *)
(* the one further call.  In either case no status message is created, no   *)
(* producer is invoked, no artifact is sent and nothing is edited or        *)
(* deleted.                                                                 *)

C6_RejectionThenAtMostFailureReply ==
    \A i \in Inv :
        Rejected(i) =>
            /\ status_msg[i] = 0 /\ status[i] = "none"
            /\ CallsOf(i, Producers \cup {"answer_document", "edit_text", "delete",
                                          "get_file", "download_file"}) = {}
            /\ (Len(trace[i]) = 0) = (pc[i] = "text_reject")
            /\ Len(trace[i]) >= 1 =>
                /\ trace[i][1].op = "answer"
                /\ trace[i][1].text = "rejection"
                /\ IF trace[i][1].ok
                   THEN Len(trace[i]) = 1 /\ pc[i] = "returned"
                   ELSE \/ Len(trace[i]) = 1 /\ pc[i] = "text_except"
                        \/ /\ Len(trace[i]) = 2
                           /\ Exited(i)
                           /\ trace[i][2].op = "answer"
                           /\ trace[i][2].text = "text_unexpected"

\* a message mentioning a URL in prose and a message with none were both
\* answered with the rejection reply alone
C6_Witness ==
    \E i, j \in Inv :
        /\ Rejected(i) /\ event[i].text = ProseText
        /\ Rejected(j) /\ event[j].text = PlainText
        /\ \A m \in {i, j} :
            /\ pc[m] = "returned"
            /\ trace[m] = <<Answer("rejection", TRUE)>>

----------------------------------------------------------------------------
(* C7: for a document whose declared media type does not begin with image/  *)
(* (an absent media type included), handle_document makes no call at all    *)
(* and returns.                                                             *)

NotAnImage(e) ==
    /\ e.document # << >>
    /\ ~HasAt(e.document[1].mime_type, 1, <<"i", "m", "a", "g", "e", "/">>)

C7_OtherDocumentsIgnored ==
    \A i \in Inv :
        NotAnImage(event[i]) =>
            /\ handlers[i] = <<"handle_document">>
            /\ pc[i] \in {"doc_begin", "returned"}
            /\ trace[i] = << >>
            /\ status_msg[i] = 0 /\ status[i] = "none"

\* a PDF and a document of no declared type were both handled to the end
C7_Witness ==
    \E i, j \in Inv :
        /\ event[i] = DocumentMessage(PdfDocument)
        /\ event[j] = DocumentMessage(UntypedDocument)
        /\ pc[i] = "returned" /\ pc[j] = "returned"

----------------------------------------------------------------------------
(* C8: each inbound message is dispatched to exactly one handler, chosen by *)
(* its shape: /start to cmd_start alone, a photo to handle_photo alone, a   *)
(* document to handle_document alone, other text to handle_text alone; no   *)
(* message is handled by two handlers, and only the chosen handler runs.    *)

\* the labels and the reply texts that belong to each handler
LabelsOf(h) ==
    CASE h = "cmd_start" -> {"start_answer"}
      [] h = "handle_photo" ->
            {"photo_status", "photo_get_file", "photo_download", "photo_remove",
             "photo_edit", "photo_send", "photo_delete", "photo_except"}
      [] h = "handle_document" ->
            {"doc_begin", "doc_status", "doc_get_file", "doc_download",
             "doc_remove", "doc_edit", "doc_send", "doc_delete", "doc_except"}
      [] h = "handle_text" ->
            {"text_begin", "text_reject", "text_status", "text_svg", "text_png",
             "text_edit", "text_send_svg", "text_send_png", "text_delete",
             "text_except"}

ShapeHandler(e) ==
    IF e.text = StartText THEN "cmd_start"
    ELSE IF e.photo # << >> THEN "handle_photo"
    ELSE IF e.document # << >> THEN "handle_document"
    ELSE "handle_text"

C8_OneHandlerPerEvent ==
    \A i \in Inv :
        pc[i] # "idle" =>
            /\ Len(handlers[i]) <= 1
            /\ event[i] # NoEvent =>
                /\ handlers[i] = <<ShapeHandler(event[i])>>
                /\ pc[i] \in LabelsOf(ShapeHandler(event[i])) \cup {"returned", "raised"}
            /\ event[i].text = StartText =>
                \A k \in 1..Len(trace[i]) : trace[i][k].text = "welcome"

\* a /start message was answered by cmd_start with the welcome text
C8_Witness ==
    \E i \in Inv :
        /\ event[i].text = StartText
        /\ handlers[i] = <<"cmd_start">>
        /\ pc[i] = "returned"
        /\ trace[i] = <<Answer("welcome", TRUE)>>

----------------------------------------------------------------------------
(* C9: for every text holding no, or more than one, http(s)://-prefixed     *)
(* substring, extract_single_url returns None.  The prefixed substrings of  *)
(* a text are counted as the pattern finds them: one in each run of         *)
(* non-whitespace characters that holds http:// or https:// followed by at  *)
(* least one more character.                                                *)

\* a prefixed substring can begin at position i of t
UrlStartsAt(t, i) ==
    \/ /\ HasAt(t, i, HttpPrefix)
       /\ i + 7 <= Len(t)
       /\ t[i + 7] \notin Whitespace
    \/ /\ HasAt(t, i, HttpsPrefix)
       /\ i + 8 <= Len(t)
       /\ t[i + 8] \notin Whitespace

\* where the prefixed substrings of t begin, the leftmost start in each word
PrefixedSubstrings(t) ==
    {i \in 1..Len(t) :
        /\ UrlStartsAt(t, i)
        /\ ~\E j \in 1..(i - 1) :
              /\ UrlStartsAt(t, j)
              /\ \A k \in j..i : t[k] \notin Whitespace}

----------------------------------------------------------------------------
(* C10: extract_single_url returns u only when the text is u with nothing   *)
(* but whitespace before and after it, so a URL inside longer prose is      *)
(* rejected; a text that is one valid bare URL with only whitespace around  *)
(* it is accepted, and the URL returned has no whitespace around it.        *)

\* t from a to b is all of t but leading and trailing whitespace
CoreOf(t, a, b) ==
    /\ a <= b
    /\ \A k \in 1..Len(t) : (k < a \/ k > b) => t[k] \in Whitespace
    /\ t[a] \notin Whitespace
    /\ t[b] \notin Whitespace

BareUrl(u) ==
    /\ \A k \in 1..Len(u) : u[k] \notin Whitespace
    /\ StartsWith(u, HttpPrefix) \/ StartsWith(u, HttpsPrefix)
    /\ is_valid_url(u)

C10_OnlyTheWholeTextIsAccepted ==
    cpc = "classified" =>
        \A a, b \in 1..Len(in_text) :
            CoreOf(in_text, a, b) =>
                /\ out_url \in {None, SubSeq(in_text, a, b)}
                /\ BareUrl(SubSeq(in_text, a, b)) => out_url = SubSeq(in_text, a, b)

\* a bare URL with whitespace on both sides was accepted without it
C10_Witness ==
    /\ cpc = "classified"
    /\ out_url # None
    /\ Len(in_text) > Len(out_url) + 1
    /\ in_text[1] \in Whitespace
    /\ in_text[Len(in_text)] \in Whitespace
    /\ out_url[1] = "h"

----------------------------------------------------------------------------
(* C11: extract_single_url returns None for every text whose single URL     *)
(* candidate does not parse to the scheme http or https together with a     *)
(* non-empty authority: a candidate with nothing between the '://' and the  *)
(* first '/', '?' or '#', or one whose authority holds an unmatched         *)
(* bracket.                                                                 *)

AuthorityEnds == {"/", "?", "#"}

\* the characters of c after its scheme prefix p, up to the first delimiter
AuthorityAfter(c, p) ==
    LET first == Len(p) + 1
        stops == {k \in first..Len(c) : c[k] \in AuthorityEnds}
        last == IF stops = {} THEN Len(c)
                ELSE (CHOOSE k \in stops : \A j \in stops : k <= j) - 1
    IN  SubSeq(c, first, last)

\* c is http:// or https:// followed by a non-empty, parseable authority
HasSchemeAndAuthority(c) ==
    \E p \in {HttpPrefix, HttpsPrefix} :
        /\ StartsWith(c, p)
        /\ AuthorityAfter(c, p) # << >>
        /\ ("[" \in {AuthorityAfter(c, p)[k] : k \in 1..Len(AuthorityAfter(c, p))})
               = ("]" \in {AuthorityAfter(c, p)[k] : k \in 1..Len(AuthorityAfter(c, p))})

C11_CandidateWithoutAuthorityIsRejected ==
    cpc = "classified" =>
        /\ (/\ Len(FindAllUrls(in_text)) = 1
            /\ ~HasSchemeAndAuthority(FindAllUrls(in_text)[1])) => out_url = None
        /\ out_url # None => HasSchemeAndAuthority(out_url)

\* the whole text is one candidate with only a path after the '://', and it
\* was rejected
C11_Witness ==
    /\ cpc = "classified"
    /\ in_text = HttpPrefix \o <<"/", "a">>
    /\ FindAllUrls(in_text) = <<in_text>>
    /\ out_url = None

----------------------------------------------------------------------------
(* C12 - C14: the filename sanitizer                                        *)

CharsOf(t) == {t[k] : k \in 1..Len(t)}

\* a text with a scheme prefix repeated at its start
RepeatedPrefix(t) ==
    \E p \in {HttpPrefix, HttpsPrefix}, q \in {HttpPrefix, HttpsPrefix} :
        StartsWith(t, p \o q)

\* C12: sanitize_filename is idempotent: sanitizing its own output gives
\* that output again, for every input, those that repeat the scheme prefix
\* and those longer than 50 characters included.
C12_SanitizeIsIdempotent ==
    cpc = "resanitized" => out_again = out_name

C12_Witness ==
    /\ cpc = "resanitized"
    /\ RepeatedPrefix(in_text)
    /\ Len(in_text) > MaxNameLen
    /\ out_name # in_text
    /\ out_again = out_name

\* the characters of [A-Za-z0-9_.-] that the bounded inputs can carry
AsciiNameChars == LowerLetters \cup UpperLetters \cup Digits \cup {"_", ".", "-"}

\* the letters outside ASCII that the bounded inputs can carry
NonAsciiLetters == {"é"}

\* C13 as stated: the output of sanitize_filename has length at most 50
\* and contains only characters of [A-Za-z0-9_.-].
C13_OutputIsShortAndAscii ==
    cpc = "sanitized" =>
        /\ Len(out_name) <= MaxNameLen
        /\ CharsOf(out_name) \subseteq AsciiNameChars

\* C13 amended: the output of sanitize_filename has length at most 50 and
\* contains only word characters (letters and digits of any script and the
\* underscore), '-' and '.'; a letter outside ASCII of the output is one of
\* the input, so an ASCII input gives an output within [A-Za-z0-9_.-].
C13_OutputIsShortAndWordChars ==
    cpc = "sanitized" =>
        /\ Len(out_name) <= MaxNameLen
        /\ CharsOf(out_name) \subseteq AsciiNameChars \cup NonAsciiLetters
        /\ CharsOf(out_name) \cap NonAsciiLetters \subseteq CharsOf(in_text)

C13_Witness ==
    /\ cpc = "sanitized"
    /\ Len(in_text) > MaxNameLen
    /\ Len(out_name) = MaxNameLen
    /\ CharsOf(in_text) \cap NonAsciiLetters # {}
    /\ CharsOf(in_text) \cap {"/", ":"} # {}
    /\ "_" \in CharsOf(out_name)

\* C14: the output of sanitize_filename contains no '/' and no ':' (so no
\* '../' survives) and does not begin with 'http://' or 'https://'.
C14_OutputHasNoPathOrScheme ==
    cpc = "sanitized" =>
        /\ "/" \notin CharsOf(out_name)
        /\ ":" \notin CharsOf(out_name)
        /\ ~StartsWith(out_name, HttpPrefix)
        /\ ~StartsWith(out_name, HttpsPrefix)

C14_Witness ==
    /\ cpc = "sanitized"
    /\ in_text = HttpsPrefix \o <<".", ".", "/">>
    /\ out_name = <<".", ".", "_">>

----------------------------------------------------------------------------
(* C15: in handle_photo, and in handle_document for an image, when no step  *)
(* fails, the calls are, in this order: the status message, the lookup and  *)
(* the download of the attachment, remove_background, one artifact sent     *)
(* with the success caption, the deletion of the status message.  For a     *)
(* photo the attachment is the last variant of the message.  Nothing is     *)
(* edited and no failure reply is sent.                                     *)

\* t is a prefix of the six calls of a successful image invocation
ImageShape(t, file_id, fname) ==
    /\ Len(t) >= 1 =>
        /\ t[1].op = "answer"
        /\ t[1].text = "image_status"
    /\ Len(t) >= 2 =>
        /\ t[2].op = "get_file"
        /\ t[2].file = file_id
    /\ Len(t) >= 3 =>
        /\ t[3].op = "download_file"
        /\ t[3].file = file_id
    /\ Len(t) >= 4 => t[4].op = "remove_background"
    /\ Len(t) >= 5 =>
        /\ t[5].op = "answer_document"
        /\ t[5].fname = fname
        /\ t[5].cap = SuccessCaption
    /\ Len(t) >= 6 => t[6].op = "delete"
    /\ Len(t) <= 6

\* the invocation handles a photo or a document declared as an image
ImageInvocation(i) ==
    \/ HandledBy(i, "handle_photo")
    \/ /\ HandledBy(i, "handle_document")
       /\ event[i].document[1] = ImageDocument

C15_ImageSuccessSequence ==
    \A i \in Inv :
        (ImageInvocation(i) /\ AllOk(i)) =>
            /\ HandledBy(i, "handle_photo") =>
                /\ ImageShape(trace[i],
                              event[i].photo[Len(event[i].photo)].file_id,
                              <<"n", "o", "_", "b", "a", "c", "k", "g", "r", "o",
                                "u", "n", "d", "_", "u", "2", ".", "p", "n", "g">>)
                /\ Len(trace[i]) >= 3 => trace[i][3].file = <<"f", "2">>
            /\ HandledBy(i, "handle_document") =>
                ImageShape(trace[i], <<"f", "3">>,
                           <<"a", ".", "b", "_", "n", "o", "_", "b", "g",
                             ".", "p", "n", "g">>)
            /\ pc[i] # "raised"
            /\ pc[i] = "returned" =>
                /\ Len(trace[i]) = 6
                /\ status_msg[i] = 1
                /\ status[i] = "deleted"

\* a photo and an image document were each handled to the end with every
\* step completing
C15_Witness ==
    \E i, j \in Inv :
        /\ HandledBy(i, "handle_photo")
        /\ HandledBy(j, "handle_document")
        /\ \A m \in {i, j} :
            /\ AllOk(m)
            /\ pc[m] = "returned"
            /\ Len(trace[m]) = 6
            /\ status[m] = "deleted"

----------------------------------------------------------------------------
(* C16: invocations that run interleaved share no state.  A step of one     *)
(* invocation, failing or not, changes nothing of another; each invocation  *)
(* edits and deletes only the status message it created itself and sends    *)
(* only artifacts made from its own message; and what an invocation has     *)
(* done is a function of its own message and of the outcomes of its own     *)
(* calls, whatever happened around it.                                      *)

\* everything invocation i holds
Locals(i) ==
    <<event[i], handlers[i], pc[i], url[i], status_msg[i], status[i], trace[i]>>

\* the outcomes of the calls of invocation i, in order
Outcomes(i) == [k \in 1..Len(trace[i]) |-> trace[i][k].ok]

\* the files message e carries
OwnFiles(e) ==
    {e.photo[k].file_id : k \in 1..Len(e.photo)}
        \cup {e.document[k].file_id : k \in 1..Len(e.document)}

\* the names an artifact made from message e can have
OwnArtifactNames(e) ==
    IF e.photo # << >>
    THEN {PhotoFilename(e.photo[k].file_unique_id) : k \in 1..Len(e.photo)}
    ELSE IF e.document # << >>
    THEN {DocumentFilename(e.document[k].file_name) : k \in 1..Len(e.document)}
    ELSE {sanitize_filename(Strip(e.text)) \o x : x \in {QrSuffixSvg, QrSuffixPng}}

\* the status of the status message of i, read off the calls of i alone
StatusFromOwnCalls(i) ==
    IF status_msg[i] = 0 THEN "none"
    ELSE IF \E k \in CallsOf(i, {"delete"}) : trace[i][k].ok THEN "deleted"
    ELSE IF \E k \in CallsOf(i, {"edit_text"}) : trace[i][k].ok THEN "edited"
    ELSE "created"

OwnStatusAndArtifacts(i) ==
    /\ status[i] = StatusFromOwnCalls(i)
    /\ status_msg[i] # 0 =>
        /\ status_msg[i] \in CallsOf(i, {"answer"})
        /\ trace[i][status_msg[i]].ok
        /\ trace[i][status_msg[i]].text \in {"qr_status", "image_status"}
    /\ \A k \in CallsOf(i, {"edit_text", "delete"}) :
           status_msg[i] # 0 /\ status_msg[i] < k
    /\ \A k \in CallsOf(i, {"answer_document"}) :
           trace[i][k].fname \in OwnArtifactNames(event[i])
    /\ \A k \in CallsOf(i, {"get_file", "download_file"}) :
           trace[i][k].file \in OwnFiles(event[i])

\* a step changes what one invocation holds and nothing of any other
StepOfOne == Cardinality({i \in Inv : Locals(i)' # Locals(i)}) <= 1

\* i and j were given the same message and their calls had the same outcomes
SameRun(i, j) ==
    /\ pc[i] # "idle"
    /\ pc[j] # "idle"
    /\ event[i] = event[j]
    /\ Len(trace[i]) = Len(trace[j])
    /\ Outcomes(i) = Outcomes(j)

\* i and j made the same calls and left their status messages alike; once
\* both have exited they agree in everything
SameResult(i, j) ==
    /\ trace[i] = trace[j]
    /\ status_msg[i] = status_msg[j]
    /\ status[i] = status[j]
    /\ (Exited(i) /\ Exited(j)) => Locals(i) = Locals(j)

C16_InvocationsAreIsolated ==
    /\ [](\A i \in Inv : OwnStatusAndArtifacts(i))
    /\ [](\A i, j \in Inv : (i < j /\ SameRun(i, j)) => SameResult(i, j))
    /\ [][StepOfOne]_vars

\* of two invocations handling the same image message, one failed at the
\* producer and had its status message edited, the other delivered its
\* artifact and deleted its own
C16_Witness ==
    \E i, j \in Inv :
        /\ event[i] = event[j]
        /\ HandledBy(i, "handle_photo")
        /\ FailedCalls(i, {"remove_background"}) # {}
        /\ pc[i] = "returned"
        /\ status[i] = "edited"
        /\ AllOk(j)
        /\ pc[j] = "returned"
        /\ status[j] = "deleted"

----------------------------------------------------------------------------
(* C17: within one invocation nothing is retried.  Each producer is called  *)
(* at most once, the attachment is looked up and downloaded at most once,   *)
(* each artifact is sent at most once and no call at all is made a second   *)
(* time, whichever step fails.                                              *)

\* the calls an invocation makes at most once whatever their arguments
OnceOnly == Producers \cup {"get_file", "download_file"}

\* calls k and m of invocation i ask for the same thing
SameRequest(i, k, m) ==
    /\ trace[i][k].op = trace[i][m].op
    /\ \/ trace[i][k].op \in OnceOnly
       \/ /\ trace[i][k].text = trace[i][m].text
          /\ trace[i][k].fname = trace[i][m].fname

C17_NothingIsRetried ==
    \A i \in Inv :
        \A k \in 1..Len(trace[i]) :
            \A m \in (k + 1)..Len(trace[i]) : ~SameRequest(i, k, m)

\* a download failed and a send of an artifact failed, each handler has
\* exited, and each failed call was made once
C17_Witness ==
    \E i, j \in Inv :
        /\ Exited(i)
        /\ FailedCalls(i, {"download_file"}) # {}
        /\ Cardinality(CallsOf(i, {"download_file"})) = 1
        /\ Exited(j)
        /\ HandledBy(j, "handle_text")
        /\ FailedCalls(j, {"answer_document"}) # {}
        /\ Cardinality(CallsOf(j, {"answer_document"})) = 2
        /\ Cardinality(CallsOf(j, QrProducers)) = 2

----------------------------------------------------------------------------
(* C19: the deletion of the status message is attempted only after every    *)
(* artifact of the invocation (two for a URL, one for an image) has been    *)
(* sent successfully, so a deleted status message means the delivery is     *)
(* complete; and the raster QR artifact is never sent unless the vector     *)
(* one was sent successfully before it.                                     *)

\* how many artifacts a complete delivery of invocation i has
ArtifactsDue(i) == IF HandledBy(i, "handle_text") THEN 2 ELSE 1

\* the artifacts of invocation i delivered before its call k
SentBefore(i, k) ==
    {m \in CallsOf(i, {"answer_document"}) : m < k /\ trace[i][m].ok}

C19_DeleteOnlyAfterDelivery ==
    \A i \in Inv :
        /\ \A k \in CallsOf(i, {"delete"}) :
               /\ Cardinality(SentBefore(i, k)) = ArtifactsDue(i)
               /\ FailedCalls(i, {"answer_document"}) = {}
        /\ status[i] = "deleted" =>
               Cardinality(SentBefore(i, Len(trace[i]))) = ArtifactsDue(i)
        /\ \A k \in CallsOf(i, {"answer_document"}) :
               EndsWith(trace[i][k].fname, QrSuffixPng) =>
                   \E m \in SentBefore(i, k) :
                       EndsWith(trace[i][m].fname, QrSuffixSvg)

\* a URL invocation deleted its status message after both artifacts; another
\* one sent the vector artifact, failed to send the raster one and attempted
\* no deletion
C19_Witness ==
    \E i, j \in Inv :
        /\ HandledBy(i, "handle_text")
        /\ status[i] = "deleted"
        /\ Cardinality(SentBefore(i, Len(trace[i]))) = 2
        /\ HandledBy(j, "handle_text")
        /\ Exited(j)
        /\ \E k \in FailedCalls(j, {"answer_document"}) :
               EndsWith(trace[j][k].fname, QrSuffixPng)
        /\ CallsOf(j, {"delete"}) = {}

----------------------------------------------------------------------------
(* C18: in main, the pending updates are cleared before polling starts, and *)
(* bot.session.close() is awaited on every exit of main: when polling ends  *)
(* normally, when polling fails and when the clearing step fails.  The      *)
(* session is closed at the exit whenever that close completed.             *)

MainExited == mpc \in {"returned", "raised"}

\* the positions of mtrace holding a call of op
MainCallsOf(op) == {k \in 1..Len(mtrace) : mtrace[k].op = op}

\* the dispatcher has been started
PollingStarted ==
    \/ mpc = "polling"
    \/ MainCallsOf("start_polling") # {}
    \/ \E i \in Inv : pc[i] # "idle"

C18_ClearedBeforePollingClosedAtExit ==
    /\ PollingStarted =>
        /\ ~pending
        /\ mtrace # << >>
        /\ mtrace[1] = MainCall("delete_webhook", "ok")
    /\ MainExited =>
        /\ MainCallsOf("close") = {Len(mtrace)}
        /\ (session = "closed") = (mtrace[Len(mtrace)].result = "ok")
        /\ (mpc = "returned") =
               /\ mtrace[Len(mtrace)].result = "ok"
               /\ \A k \in 1..Len(mtrace) : mtrace[k].result # "cancelled"
    /\ ~MainExited => session = "open"

\* polling failed while a handler was at work; main logged the error, closed
\* the session and returned
C18_Witness ==
    /\ mpc = "returned"
    /\ session = "closed"
    /\ mtrace = <<MainCall("delete_webhook", "ok"),
                  MainCall("start_polling", "error"),
                  MainCall("close", "ok")>>
    /\ \E i \in Polled : pc[i] = "text_send_png"

====
